---- MODULE Spec2Model ----
(***************************************************************************)
(* A model of llm-smart-router (src/src/smart_router): the model registry, *)
(* its refresh protocol, the routing orchestrator and the classifier       *)
(* escalation.                                                             *)
(***************************************************************************)
EXTENDS Integers, Sequences, FiniteSets, TLC

(***************************************************************************)
(* Bounds of the model.                                                    *)
(***************************************************************************)
\* the largest registry the registry specification draws
MaxModels == 3
\* parameter counts drawn for a directly constructed ModelInfo: 0..MaxParams
MaxParams == 1

(***************************************************************************)
(* models.py: Tier, ModelInfo, ModelRegistry                               *)
(***************************************************************************)
SMALL == 1
MEDIUM == 2
LARGE == 3

\* class Tier(IntEnum); TierOrder is the iteration order of the enumeration
Tier == {SMALL, MEDIUM, LARGE}
TierOrder == <<SMALL, MEDIUM, LARGE>>

\* Python's None for an optional parameter count (counts are >= 0)
None == -1

\* the None a lookup returns instead of a ModelInfo
NoModel ==
    [id |-> <<>>, total_params |-> None, active_params |-> None,
     tier |-> 0, is_coder |-> FALSE]

Min2(a, b) == IF a <= b THEN a ELSE b
Max2(a, b) == IF a >= b THEN a ELSE b

\* a truthy float: neither None nor 0.0
Truthy(x) == x # None /\ x # 0

\* ModelInfo.effective_params: total_params or active_params or 0.0
effective_paramsMutTotalOnly(m) ==
    IF Truthy(m.total_params) THEN m.total_params ELSE 0

effective_params(m) ==
    IF Truthy(m.total_params) THEN m.total_params
    ELSE IF Truthy(m.active_params) THEN m.active_params
    ELSE 0

\* ModelRegistry.by_tier over the values of the models dict (insertion order)
by_tier(models, tier) == SelectSeq(models, LAMBDA m : m.tier = tier)

\* max(seq, key=effective_params): the first element with the largest key
RECURSIVE MaxFrom(_, _, _)
MaxFrom(seq, i, best) ==
    IF i > Len(seq) THEN best
    ELSE IF effective_params(seq[i]) > effective_params(best)
         THEN MaxFrom(seq, i + 1, seq[i])
         ELSE MaxFrom(seq, i + 1, best)

MaxByParams(seq) == MaxFrom(seq, 2, seq[1])

\* min(seq, key=effective_params): the first element with the smallest key
RECURSIVE MinFrom(_, _, _)
MinFrom(seq, i, best) ==
    IF i > Len(seq) THEN best
    ELSE IF effective_params(seq[i]) < effective_params(best)
         THEN MinFrom(seq, i + 1, seq[i])
         ELSE MinFrom(seq, i + 1, best)

MinByParams(seq) == MinFrom(seq, 2, seq[1])

\* lines 53-57: for fallback_tier in Tier: if fallback_tier > tier: ... break
RECURSIVE HigherFrom(_, _, _, _)
HigherFrom(models, tier, i, candidates) ==
    IF i > Len(TierOrder) THEN candidates
    ELSE IF TierOrder[i] > tier
         THEN IF by_tier(models, TierOrder[i]) # <<>>
              THEN by_tier(models, TierOrder[i])
              ELSE HigherFrom(models, tier, i + 1, by_tier(models, TierOrder[i]))
         ELSE HigherFrom(models, tier, i + 1, candidates)

\* lines 60-64: for fallback_tier in reversed(list(Tier)): if fallback_tier < tier
RECURSIVE LowerFrom(_, _, _, _)
LowerFrom(models, tier, i, candidates) ==
    IF i < 1 THEN candidates
    ELSE IF TierOrder[i] < tier
         THEN IF by_tier(models, TierOrder[i]) # <<>>
              THEN by_tier(models, TierOrder[i])
              ELSE LowerFrom(models, tier, i - 1, by_tier(models, TierOrder[i]))
         ELSE LowerFrom(models, tier, i - 1, candidates)

\* lines 50-64: the candidates of the requested tier, else of a fallback tier
CandidatesMutLowerFirst(models, tier) ==
    LET c0 == by_tier(models, tier)
        c1 == IF c0 = <<>> THEN LowerFrom(models, tier, Len(TierOrder), c0) ELSE c0
    IN  IF c1 = <<>> THEN HigherFrom(models, tier, 1, c1) ELSE c1

Candidates(models, tier) ==
    LET c0 == by_tier(models, tier)
        c1 == IF c0 = <<>> THEN HigherFrom(models, tier, 1, c0) ELSE c0
    IN  IF c1 = <<>> THEN LowerFrom(models, tier, Len(TierOrder), c1) ELSE c1

general(seq) == SelectSeq(seq, LAMBDA m : ~m.is_coder)
coders(seq) == SelectSeq(seq, LAMBDA m : m.is_coder)

\* lines 79-83: for fallback_tier in list(Tier): if fallback_tier != tier
RECURSIVE AdjGeneralFrom(_, _, _)
AdjGeneralFrom(models, tier, i) ==
    IF i > Len(TierOrder) THEN <<>>
    ELSE IF TierOrder[i] # tier /\ general(by_tier(models, TierOrder[i])) # <<>>
         THEN general(by_tier(models, TierOrder[i]))
         ELSE AdjGeneralFrom(models, tier, i + 1)

\* ModelRegistry.get_model_for_tier
get_model_for_tierMutIgnoreCoder(models, tier, prefer_coder) ==
    LET candidates == Candidates(models, tier)
    IN  IF candidates = <<>> THEN NoModel ELSE MaxByParams(candidates)

get_model_for_tierMutStayInTier(models, tier, prefer_coder) ==
    LET candidates == Candidates(models, tier)
    IN  IF candidates = <<>> THEN NoModel
        ELSE IF prefer_coder /\ coders(candidates) # <<>>
             THEN MaxByParams(coders(candidates))
        ELSE IF ~prefer_coder /\ general(candidates) # <<>>
             THEN MaxByParams(general(candidates))
        ELSE MaxByParams(candidates)

get_model_for_tierMutNoFallback(models, tier, prefer_coder) ==
    IF by_tier(models, tier) = <<>> THEN NoModel
    ELSE get_model_for_tierMutStayInTier(models, tier, prefer_coder)

get_model_for_tierMutCoderAcross(models, tier, prefer_coder) ==
    IF prefer_coder /\ coders(Candidates(models, tier)) = <<>> /\ coders(models) # <<>>
    THEN MaxByParams(coders(models))
    ELSE get_model_for_tierMutStayInTier(models, tier, prefer_coder)

get_model_for_tier(models, tier, prefer_coder) ==
    LET candidates == Candidates(models, tier)
    IN  IF candidates = <<>> THEN NoModel
        ELSE IF prefer_coder
             THEN IF coders(candidates) # <<>>
                  THEN MaxByParams(coders(candidates))
                  ELSE MaxByParams(candidates)
        ELSE IF general(candidates) # <<>>
             THEN MaxByParams(general(candidates))
        ELSE IF AdjGeneralFrom(models, tier, 1) # <<>>
             THEN MaxByParams(AdjGeneralFrom(models, tier, 1))
        ELSE MaxByParams(candidates)


(***************************************************************************)
(* models.py: model ids, parameter extraction, tiering.  A model id is a   *)
(* tuple of one-character strings.  A parameter count is held in units of  *)
(* 1/ParamScale billion, exact for ids with at most one decimal digit.     *)
(***************************************************************************)
ParamScale == 10

Digits == {"0", "1", "2", "3", "4", "5", "6", "7", "8", "9"}
DigitVal ==
    "0" :> 0 @@ "1" :> 1 @@ "2" :> 2 @@ "3" :> 3 @@ "4" :> 4 @@
    "5" :> 5 @@ "6" :> 6 @@ "7" :> 7 @@ "8" :> 8 @@ "9" :> 9
LowerLetters ==
    {"a", "b", "c", "d", "e", "f", "g", "h", "i", "j", "k", "l", "m",
     "n", "o", "p", "q", "r", "s", "t", "u", "v", "w", "x", "y", "z"}
UpperToLower ==
    "A" :> "a" @@ "B" :> "b" @@ "C" :> "c" @@ "D" :> "d" @@ "E" :> "e" @@
    "F" :> "f" @@ "G" :> "g" @@ "H" :> "h" @@ "I" :> "i" @@ "J" :> "j" @@
    "K" :> "k" @@ "L" :> "l" @@ "M" :> "m" @@ "N" :> "n" @@ "O" :> "o" @@
    "P" :> "p" @@ "Q" :> "q" @@ "R" :> "r" @@ "S" :> "s" @@ "T" :> "t" @@
    "U" :> "u" @@ "V" :> "v" @@ "W" :> "w" @@ "X" :> "x" @@ "Y" :> "y" @@
    "Z" :> "z"
\* re.IGNORECASE on ASCII letters
Lower(c) == IF c \in DOMAIN UpperToLower THEN UpperToLower[c] ELSE c
IsDigit(c) == c \in Digits
\* \w: a letter, a digit or the underscore
IsWord(c) == Lower(c) \in LowerLetters \/ IsDigit(c) \/ c = "_"
\* \s
IsSpace(c) == c = " "
\* [bB] and [Aa]
IsB(c) == c \in {"b", "B"}
IsA(c) == c \in {"a", "A"}

\* pattern.search(s) for a literal, case-insensitive pattern w
Contains(s, w) ==
    \E i \in 1..(Len(s) - Len(w) + 1) :
        \A k \in 1..Len(w) : Lower(s[i + k - 1]) = w[k]

\* the end of the longest run of digits (\d+) that starts at i
RECURSIVE DigitsEnd(_, _)
DigitsEnd(s, i) == IF i <= Len(s) /\ IsDigit(s[i]) THEN DigitsEnd(s, i + 1) ELSE i

\* the end of the longest run of white space (\s*) that starts at i
RECURSIVE SpacesEnd(_, _)
SpacesEnd(s, i) == IF i <= Len(s) /\ IsSpace(s[i]) THEN SpacesEnd(s, i + 1) ELSE i

\* int(s[i..j-1])
RECURSIVE NatOf(_, _, _)
NatOf(s, i, j) == IF j <= i THEN 0 ELSE NatOf(s, i, j - 1) * 10 + DigitVal[s[j - 1]]

RECURSIVE Pow10(_)
Pow10(n) == IF n = 0 THEN 1 ELSE 10 * Pow10(n - 1)

\* float("<s[i..j-1]>") and float("<s[i..j-1]>.<s[j+1..k-1]>"), scaled
FloatOfInt(s, i, j) == NatOf(s, i, j) * ParamScale
FloatOfDec(s, i, j, k) ==
    NatOf(s, i, j) * ParamScale + (NatOf(s, j + 1, k) * ParamScale) \div Pow10(k - j - 1)

NoMatch == [ok |-> FALSE, val |-> 0, end |-> 0]

\* the number (\d+(?:\.\d+)?) at i has a decimal part
HasDecimal(s, j) == j + 1 <= Len(s) /\ s[j] = "." /\ IsDigit(s[j + 1])

\* \s*[bB](?:\b|$) at e: the b is followed by no word character
ParamTailOKMutNoBoundary(s, e) ==
    LET l == SpacesEnd(s, e) IN l <= Len(s) /\ IsB(s[l])

ParamTailOK(s, e) ==
    LET l == SpacesEnd(s, e)
    IN  l <= Len(s) /\ IsB(s[l]) /\ (l = Len(s) \/ ~IsWord(s[l + 1]))

\* PARAM_PATTERN.match at position i (line 17), the integer part ending
\* before j and the decimal part, if any, before k
ParamWith(s, i, j, k) ==
    IF HasDecimal(s, j) /\ ParamTailOK(s, k)
    THEN [ok |-> TRUE, val |-> FloatOfDec(s, i, j, k), end |-> SpacesEnd(s, k) + 1]
    ELSE IF ParamTailOK(s, j)
    THEN [ok |-> TRUE, val |-> FloatOfInt(s, i, j), end |-> SpacesEnd(s, j) + 1]
    ELSE NoMatch

ParamFrom(s, i, j) == ParamWith(s, i, j, DigitsEnd(s, j + 1))

ParamAt(s, i) ==
    IF i <= Len(s) /\ IsDigit(s[i]) THEN ParamFrom(s, i, DigitsEnd(s, i)) ELSE NoMatch

\* [float(p) for p in PARAM_PATTERN.findall(model_id)]
RECURSIVE ParamFindAll(_, _)
ParamNext(s, pos, m) ==
    IF m.ok THEN <<m.val>> \o ParamFindAll(s, m.end) ELSE ParamFindAll(s, pos + 1)

ParamFindAll(s, pos) == IF pos > Len(s) THEN <<>> ELSE ParamNext(s, pos, ParamAt(s, pos))

\* MOE_ACTIVE_PATTERN.match at position i (line 19), the digits from i + 1
MoeWith(s, i, j, k) ==
    IF HasDecimal(s, j) /\ k <= Len(s) /\ IsB(s[k])
    THEN [ok |-> TRUE, val |-> FloatOfDec(s, i + 1, j, k), end |-> k + 1]
    ELSE IF j <= Len(s) /\ IsB(s[j])
    THEN [ok |-> TRUE, val |-> FloatOfInt(s, i + 1, j), end |-> j + 1]
    ELSE NoMatch

MoeFrom(s, i, j) == MoeWith(s, i, j, DigitsEnd(s, j + 1))

MoeAt(s, i) ==
    IF i + 1 <= Len(s) /\ IsA(s[i]) /\ IsDigit(s[i + 1])
    THEN MoeFrom(s, i, DigitsEnd(s, i + 1))
    ELSE NoMatch

\* MOE_ACTIVE_PATTERN.search(model_id): the leftmost match
RECURSIVE MoeSearch(_, _)
MoeNext(s, pos, m) == IF m.ok THEN m ELSE MoeSearch(s, pos + 1)

MoeSearch(s, pos) == IF pos > Len(s) THEN NoMatch ELSE MoeNext(s, pos, MoeAt(s, pos))

\* max(float(p) for p in seq) of a non-empty seq
RECURSIVE MaxOfSeq(_)
MaxOfSeq(seq) ==
    IF Len(seq) = 1 THEN seq[1] ELSE Max2(seq[1], MaxOfSeq(Tail(seq)))

\* lines 103-105: the largest candidate that is not the active value; max()
\* of an empty generator raises ValueError
TotalExcluding(others, active_params) ==
    IF others = <<>>
    THEN [raises |-> TRUE, total |-> None, active |-> active_params]
    ELSE [raises |-> FALSE, total |-> MaxOfSeq(others), active |-> active_params]

\* lines 97-109
ExtractTotal(active_params, all_params) ==
    IF all_params = <<>>
    THEN [raises |-> FALSE, total |-> None, active |-> active_params]
    ELSE IF /\ Truthy(active_params)
            /\ MaxOfSeq(all_params) = active_params
            /\ Len(all_params) > 1
    THEN TotalExcluding(SelectSeq(all_params, LAMBDA x : x # active_params),
                        active_params)
    ELSE [raises |-> FALSE, total |-> MaxOfSeq(all_params), active |-> active_params]

\* lines 94-95
ActiveOf(moe_match) == IF moe_match.ok THEN moe_match.val ELSE None

\* _extract_params: [raises, total, active]
_extract_params(model_id) ==
    ExtractTotal(ActiveOf(MoeSearch(model_id, 1)), ParamFindAll(model_id, 1))

\* _classify_tier under configuration cfg
_classify_tierMutStrict(effective, cfg) ==
    IF effective < cfg.tier1_max_params THEN SMALL
    ELSE IF effective < cfg.tier2_max_params THEN MEDIUM
    ELSE LARGE

_classify_tier(effective, cfg) ==
    IF effective <= cfg.tier1_max_params THEN SMALL
    ELSE IF effective <= cfg.tier2_max_params THEN MEDIUM
    ELSE LARGE

\* EMBEDDING_PATTERNS, EXCLUDE_PATTERNS (lines 13-14) and _is_chat_model
_is_chat_model(model_id) ==
    /\ ~(Contains(model_id, <<"e", "m", "b", "e", "d">>)
         \/ Contains(model_id, <<"e", "m", "b", "e", "d", "d", "i", "n", "g">>))
    /\ ~(\/ Contains(model_id, <<"o", "c", "r">>)
         \/ Contains(model_id, <<"w", "h", "i", "s", "p", "e", "r">>)
         \/ Contains(model_id, <<"t", "t", "s">>)
         \/ Contains(model_id, <<"r", "e", "r", "a", "n", "k">>))

\* re.search(r"coder|code", model_id, re.IGNORECASE)
IsCoderId(model_id) ==
    \/ Contains(model_id, <<"c", "o", "d", "e", "r">>)
    \/ Contains(model_id, <<"c", "o", "d", "e">>)

\* lines 134-149: the ModelInfo of a chat model whose parameters are ex
InfoOf(model_id, ex, effective, cfg) ==
    [id |-> model_id,
     total_params |-> ex.total,
     active_params |-> ex.active,
     tier |-> IF effective # None THEN _classify_tier(effective, cfg) ELSE MEDIUM,
     is_coder |-> IsCoderId(model_id)]

BuildWith(model_id, ex, cfg) ==
    IF ex.raises THEN [raises |-> TRUE, none |-> FALSE, info |-> NoModel]
    ELSE [raises |-> FALSE, none |-> FALSE,
          info |-> InfoOf(model_id, ex,
                          IF Truthy(ex.total) THEN ex.total ELSE ex.active, cfg)]

\* _build_model_info: [raises, none, info]; none is the None returned for an
\* id that is no chat model
_build_model_info(model_id, cfg) ==
    IF ~_is_chat_model(model_id)
    THEN [raises |-> FALSE, none |-> TRUE, info |-> NoModel]
    ELSE BuildWith(model_id, _extract_params(model_id), cfg)

(***************************************************************************)
(* config.py: RouterConfig and load_config.  Scores and thresholds are in  *)
(* thousandths, times in seconds.                                          *)
(***************************************************************************)
\* the empty string (a model id of no characters)
EmptyStr == <<>>

\* RouterConfig.__init__ (lines 19-47)
DefaultConfig ==
    [tier1_max_params |-> 8 * ParamScale,
     tier2_max_params |-> 27 * ParamScale,
     heuristic_low_threshold |-> 300,
     heuristic_high_threshold |-> 700,
     classifier_model |-> EmptyStr,
     model_cache_ttl |-> 300,
     filter_mode |-> "blocklist",
     allowed_models |-> {},
     excluded_models |-> {},
     tier_overrides |-> <<>>]

VALID_TIERS == {"small", "medium", "large"}

\* key.upper() of a tier key
UpperName(key) ==
    IF key = "small" THEN "SMALL" ELSE IF key = "medium" THEN "MEDIUM" ELSE "LARGE"

\* _parse_models_config for a tier-grouped dict: groups is a sequence of
\* <<key, list of model ids as a set>> in the order of the file, every key
\* the lower-case name of a tier
RECURSIVE GroupOverrides(_, _, _)
GroupOverrides(groups, i, acc) ==
    IF i > Len(groups) THEN acc
    ELSE IF groups[i][1] \in VALID_TIERS
         THEN GroupOverrides(groups, i + 1,
                             [m \in groups[i][2] |-> UpperName(groups[i][1])] @@ acc)
         ELSE GroupOverrides(groups, i + 1, acc)

GroupModels(groups) ==
    UNION {groups[i][2] : i \in {j \in DOMAIN groups : groups[j][1] \in VALID_TIERS}}

\* load_config: a missing or unreadable file gives the defaults; otherwise
\* every key of the file replaces its default
load_config(file) ==
    IF ~file.exists \/ ~file.valid THEN DefaultConfig
    ELSE [DefaultConfig EXCEPT
            !.classifier_model = file.classifier_model,
            !.model_cache_ttl = file.model_cache_ttl,
            !.filter_mode = file.filter_mode,
            !.excluded_models = file.excluded,
            !.allowed_models =
                IF file.models_is_list THEN file.models_list
                ELSE GroupModels(file.models_groups),
            !.tier_overrides =
                IF file.models_is_list THEN <<>>
                ELSE GroupOverrides(file.models_groups, 1, <<>>)]

\* RouterConfig.is_model_enabled
is_model_enabledMutAllowAll(cfg, model_id) == TRUE

is_model_enabled(cfg, model_id) ==
    IF cfg.filter_mode = "allowlist" THEN model_id \in cfg.allowed_models
    ELSE model_id \notin cfg.excluded_models

\* RouterConfig.get_tier_override: the tier name, or the empty string for None
get_tier_override(cfg, model_id) ==
    IF model_id \in DOMAIN cfg.tier_overrides THEN cfg.tier_overrides[model_id]
    ELSE ""

\* Tier[name]; 0 stands for the KeyError of an unknown name
TierByName(name) ==
    IF name = "SMALL" THEN SMALL
    ELSE IF name = "MEDIUM" THEN MEDIUM
    ELSE IF name = "LARGE" THEN LARGE
    ELSE 0

(***************************************************************************)
(* heuristics.py: score_request.  A message is a record of its role and of *)
(* what the scorer reads off its text: chars (length of the extracted      *)
(* text), blocks (fenced code blocks), image (an image part), cplx, modr   *)
(* (matches of COMPLEX_KEYWORDS, MODERATE_KEYWORDS), simp (a match of      *)
(* SIMPLE_KEYWORDS) and code (a code indicator or a code fence).           *)
(***************************************************************************)
RECURSIVE SumChars(_)
SumChars(seq) == IF seq = <<>> THEN 0 ELSE Head(seq).chars + SumChars(Tail(seq))

RECURSIVE SumBlocks(_)
SumBlocks(seq) == IF seq = <<>> THEN 0 ELSE Head(seq).blocks + SumBlocks(Tail(seq))

\* len(_extract_text(messages)): the parts joined by "\n"
TextLen(messages) ==
    IF messages = <<>> THEN 0
    ELSE SumChars(messages) + Len(messages) - 1

\* _estimate_tokens
_estimate_tokens(chars) == chars \div 4

\* lines 105-118
TokenScore(total_tokens) ==
    IF total_tokens < 50 THEN 0
    ELSE IF total_tokens < 200 THEN 100
    ELSE IF total_tokens < 800 THEN 250
    ELSE IF total_tokens < 2000 THEN 400
    ELSE 500

\* lines 121-126
TurnScore(num_turns) ==
    IF num_turns > 10 THEN 150 ELSE IF num_turns > 4 THEN 80 ELSE 0

\* lines 129-136: tools is the number of declared tools, 0 for None or []
ToolScore(tools) == IF tools = 0 THEN 0 ELSE IF tools > 3 THEN 200 ELSE 100

\* lines 139-147
SystemScore(messages) ==
    LET system_msgs == SelectSeq(messages, LAMBDA m : m.role = "system")
        system_tokens == _estimate_tokens(TextLen(system_msgs))
    IN  IF system_msgs = <<>> THEN 0
        ELSE IF system_tokens > 500 THEN 150
        ELSE IF system_tokens > 100 THEN 50
        ELSE 0

\* lines 150-155
CodeBlockScore(messages) ==
    LET code_blocks == SumBlocks(messages)
    IN  IF code_blocks > 2 THEN 150 ELSE IF code_blocks > 0 THEN 50 ELSE 0

\* lines 158-160
ImageScore(messages) ==
    IF \E i \in DOMAIN messages : messages[i].image THEN 100 ELSE 0

\* lines 163-181: the keywords of the last user message
KeywordScore(messages) ==
    LET user_msgs == SelectSeq(messages, LAMBDA m : m.role = "user")
        last == user_msgs[Len(user_msgs)]
    IN  IF user_msgs = <<>> THEN 0
        ELSE (IF last.cplx > 0 THEN Min2(700, 200 + 150 * last.cplx) ELSE 0)
           + (IF last.modr > 0 THEN Min2(200, 100 * last.modr) ELSE 0)
           - (IF last.simp /\ last.cplx = 0 /\ last.modr = 0 THEN 150 ELSE 0)

\* the sum of the signals before the clamp
RawScore(messages, tools) ==
    TokenScore(_estimate_tokens(TextLen(messages))) + TurnScore(Len(messages))
    + ToolScore(tools) + SystemScore(messages) + CodeBlockScore(messages)
    + ImageScore(messages) + KeywordScore(messages)

(***************************************************************************)
(* The score as Python computes it.  A float is held exactly as the pair   *)
(* <<hi, lo>> of the integer hi * Limb + lo that counts units of 2^-57,    *)
(* with 0 <= lo < Limb; every float the scorer meets is a multiple of that *)
(* unit.  A sum, a difference or a product by a count is computed exactly  *)
(* and then rounded to the nearest float, ties to even, as IEEE 754 does.  *)
(***************************************************************************)
Limb == 268435456

\* the float of a decimal literal of the source, given in thousandths
Dbl(thousandths) ==
    (0 :> <<0, 0>> @@ 50 :> <<26843545, 161061274>>
     @@ 80 :> <<42949672, 257698038>> @@ 100 :> <<53687091, 53687092>>
     @@ 150 :> <<80530636, 214748364>> @@ 200 :> <<107374182, 107374184>>
     @@ 250 :> <<134217728, 0>> @@ 300 :> <<161061273, 161061272>>
     @@ 400 :> <<214748364, 214748368>> @@ 500 :> <<268435456, 0>>
     @@ 700 :> <<375809638, 107374176>> @@ 1000 :> <<536870912, 0>>)[thousandths]

FNorm(hi, lo) == <<hi + (lo \div Limb), lo % Limb>>

\* the spacing of the floats around hi * Limb units: 53 significant bits
Ulp(hi) ==
    IF hi < 33554432 THEN 1
    ELSE IF hi < 67108864 THEN 2
    ELSE IF hi < 134217728 THEN 4
    ELSE IF hi < 268435456 THEN 8
    ELSE IF hi < 536870912 THEN 16
    ELSE IF hi < 1073741824 THEN 32
    ELSE 64

\* round to a multiple of u, the remainder being r: to nearest, ties to even
FRoundAt(hi, lo, u, r) ==
    IF 2 * r > u \/ (2 * r = u /\ ((lo - r) \div u) % 2 = 1)
    THEN FNorm(hi, lo - r + u)
    ELSE <<hi, lo - r>>

\* a negative value is only ever clamped to 0.0: it is left as it is
FRoundTo(x, u) == IF x[1] < 0 THEN x ELSE FRoundAt(x[1], x[2], u, x[2] % u)
FRound(x) == FRoundTo(x, Ulp(x[1]))

FAdd(x, y) == FRound(FNorm(x[1] + y[1], x[2] + y[2]))
FSub(x, y) == FRound(FNorm(x[1] - y[1], x[2] - y[2]))
\* x * n for a count n of at most 7
FMul(x, n) == FRound(FNorm(x[1] * n, x[2] * n))
FLess(x, y) == x[1] < y[1] \/ (x[1] = y[1] /\ x[2] < y[2])
FMin(x, y) == IF FLess(y, x) THEN y ELSE x
FMax(x, y) == IF FLess(x, y) THEN y ELSE x

\* lines 166-181 on the running score
FloatKeywords(score, last) ==
    FSub(FAdd(FAdd(score,
                   IF last.cplx > 0
                   THEN FMin(Dbl(700), FAdd(Dbl(200), FMul(Dbl(150), last.cplx)))
                   ELSE Dbl(0)),
              IF last.modr > 0 THEN FMin(Dbl(200), FMul(Dbl(100), last.modr))
              ELSE Dbl(0)),
         IF last.simp /\ last.cplx = 0 /\ last.modr = 0 THEN Dbl(150) ELSE Dbl(0))

FloatWithUser(score, user_msgs) ==
    IF user_msgs = <<>> THEN score ELSE FloatKeywords(score, user_msgs[Len(user_msgs)])

\* lines 99-184: the score after the clamp, before round(score, 3)
FloatScore(messages, tools) ==
    FMax(Dbl(0), FMin(Dbl(1000),
        FloatWithUser(
            FAdd(FAdd(FAdd(FAdd(FAdd(
                Dbl(TokenScore(_estimate_tokens(TextLen(messages)))),
                Dbl(TurnScore(Len(messages)))),
                Dbl(ToolScore(tools))),
                Dbl(SystemScore(messages))),
                Dbl(CodeBlockScore(messages))),
                Dbl(ImageScore(messages))),
            SelectSeq(messages, LAMBDA m : m.role = "user"))))

\* lines 191-195 on the floats score, low_thresh, high_thresh and margin
ConfidentOn(score, low_thresh, high_thresh, margin) ==
    \/ FLess(score, FSub(low_thresh, margin))
    \/ (~FLess(score, FAdd(low_thresh, margin))
        /\ ~FLess(FSub(high_thresh, margin), score))
    \/ FLess(FAdd(high_thresh, margin), score)

Confident(score, cfg) ==
    ConfidentOn(score, Dbl(cfg.heuristic_low_threshold),
                Dbl(cfg.heuristic_high_threshold), Dbl(100))

\* score_request: HeuristicResult(score, confident); round(score, 3) is the
\* decimal sum of the signals, from which the float differs by less than
\* 2^-50
score_requestMutNoClamp(messages, tools, cfg) ==
    [score |-> RawScore(messages, tools),
     confident |-> Confident(FloatScore(messages, tools), cfg)]

score_request(messages, tools, cfg) ==
    [score |-> Max2(0, Min2(1000, RawScore(messages, tools))),
     confident |-> Confident(FloatScore(messages, tools), cfg)]

(***************************************************************************)
(* router.py: _score_to_tier, _is_coding_request                           *)
(***************************************************************************)
_score_to_tierMutSwapped(score, cfg) ==
    IF score <= cfg.heuristic_low_threshold THEN LARGE
    ELSE IF score >= cfg.heuristic_high_threshold THEN SMALL
    ELSE MEDIUM

_score_to_tier(score, cfg) ==
    IF score <= cfg.heuristic_low_threshold THEN SMALL
    ELSE IF score >= cfg.heuristic_high_threshold THEN LARGE
    ELSE MEDIUM

\* [m for m in messages if m.get("role") == "user"][-3:]
LastThree(seq) ==
    IF Len(seq) <= 3 THEN seq ELSE SubSeq(seq, Len(seq) - 2, Len(seq))

_is_coding_requestMutAnyUser(messages) ==
    LET user_msgs == SelectSeq(messages, LAMBDA m : m.role = "user")
    IN  \E i \in DOMAIN user_msgs : user_msgs[i].code

_is_coding_request(messages) ==
    LET user_msgs == LastThree(SelectSeq(messages, LAMBDA m : m.role = "user"))
    IN  \E i \in DOMAIN user_msgs : user_msgs[i].code

(***************************************************************************)
(* classifier.py: classify_complexity                                      *)
(***************************************************************************)
\* lines 37-54: the classifier model, or the empty string when the registry
\* the classifier reads has no model
ClassifierModelMutFirst(models, cfg) ==
    IF cfg.classifier_model # EmptyStr THEN cfg.classifier_model
    ELSE IF by_tier(models, SMALL) # <<>> THEN by_tier(models, SMALL)[1].id
    ELSE IF models # <<>> THEN models[1].id
    ELSE EmptyStr

ClassifierModel(models, cfg) ==
    IF cfg.classifier_model # EmptyStr THEN cfg.classifier_model
    ELSE IF by_tier(models, SMALL) # <<>> THEN MinByParams(by_tier(models, SMALL)).id
    ELSE IF models # <<>> THEN MinByParams(models).id
    ELSE EmptyStr

\* line 54
NoClassifierResult ==
    [raised |-> FALSE, tier |-> MEDIUM, reason |-> "no classifier model available"]

\* What the backend call of lines 59-75 can end in.  A reply is a record
\* [kind, tier_num, has_reason]; for kind "ok" the body is a JSON object
\* whose tier is the integer tier_num, with or without a reason.
HttpFailures == {"network_error", "timeout", "error_status"}
BodyFailures == {"no_choices", "malformed_json", "missing_tier", "non_numeric_tier"}

\* lines 58-91, the try block: what it returns, or that it raises
ClassifierTry(reply) ==
    IF reply.kind \in HttpFailures \cup BodyFailures
    THEN [raised |-> TRUE, tier |-> 0, reason |-> reply.kind]
    ELSE [raised |-> FALSE,
          tier |-> Max2(1, Min2(3, reply.tier_num)),
          reason |-> IF reply.has_reason THEN "reason of the classifier" ELSE ""]

\* lines 93-95: except Exception
ClassifierExceptMutHttpOnly(reply) ==
    IF ClassifierTry(reply).raised /\ reply.kind \in HttpFailures
    THEN [raised |-> FALSE, tier |-> MEDIUM,
          reason |-> "classifier error, defaulting to medium"]
    ELSE ClassifierTry(reply)

ClassifierExcept(reply) ==
    IF ClassifierTry(reply).raised
    THEN [raised |-> FALSE, tier |-> MEDIUM,
          reason |-> "classifier error, defaulting to medium"]
    ELSE ClassifierTry(reply)

(***************************************************************************)
(* models.py: refresh_models, lines 168-206: the rebuild from a listing    *)
(***************************************************************************)
\* new_models[model_id] = info on a dict kept in insertion order
DictPut(models, info) ==
    IF \E i \in DOMAIN models : models[i].id = info.id
    THEN [i \in DOMAIN models |-> IF models[i].id = info.id THEN info ELSE models[i]]
    ELSE Append(models, info)

\* lines 185-191: the tier override of the configuration, if it names a tier
WithOverride(info, cfg) ==
    LET tier_override == get_tier_override(cfg, info.id)
    IN  IF tier_override # "" /\ TierByName(tier_override) # 0
        THEN [info EXCEPT !.tier = TierByName(tier_override)]
        ELSE info

\* lines 171-201: the loop over the listing; raises when _build_model_info does
RECURSIVE BuildFrom(_, _, _, _)
BuildStep(data, i, cfg, new_models, b) ==
    IF b.raises THEN [raises |-> TRUE, models |-> <<>>]
    ELSE IF b.none THEN BuildFrom(data, i + 1, cfg, new_models)
    ELSE IF ~is_model_enabled(cfg, data[i])
         THEN BuildFrom(data, i + 1, cfg, new_models)
    ELSE BuildFrom(data, i + 1, cfg, DictPut(new_models, WithOverride(b.info, cfg)))

BuildFrom(data, i, cfg, new_models) ==
    IF i > Len(data) THEN [raises |-> FALSE, models |-> new_models]
    ELSE BuildStep(data, i, cfg, new_models, _build_model_info(data[i], cfg))

NewModels(data, cfg) == BuildFrom(data, 1, cfg, <<>>)

(***************************************************************************)
(* State                                                                   *)
(***************************************************************************)
VARIABLES
    heap,       \* the ModelRegistry objects ever constructed, by reference
    registry,   \* models._registry: the reference readers obtain
    config,     \* config._config
    configFile, \* router_config.yaml
    clock,      \* time.time()
    app,        \* the lifespan of the application
    proc,       \* the requests in flight: position and locals of each
    call        \* the last call of the registry specification and its result

vars == <<heap, registry, config, configFile, clock, app, proc, call>>

NoCall == [fn |-> "none", tier |-> 0, prefer_coder |-> FALSE, result |-> NoModel]

\* the tasks of the event loop: the lifespan, a client's request, an
\* operator's request
Procs == {"boot", "t1", "t2"}

NoBody == [messages |-> <<>>, tools |-> 0, model |-> EmptyStr, stream |-> FALSE]
NoHeuristic == [score |-> 0, confident |-> FALSE]
NoCls == [raised |-> FALSE, tier |-> 0, reason |-> ""]
NoReply == [kind |-> "none", tier_num |-> 0, has_reason |-> FALSE]

\* the locals of a handler that has not run yet
FreshProc(handler, body) ==
    [pc |-> "idle", handler |-> handler, body |-> body,
     force |-> FALSE, now |-> 0, data |-> <<>>,
     reg |-> 0, heuristic |-> NoHeuristic, tier |-> 0, routing |-> "",
     prefer_coder |-> FALSE, classifier_model |-> EmptyStr,
     reply |-> NoReply, cls |-> NoCls,
     scored |-> 0, classified |-> 0, fetches |-> 0, posts |-> 0, proxied |-> 0,
     route |-> "none", model |-> NoModel, meta_tier |-> "",
     status |-> 0, hdr_model |-> EmptyStr, hdr_tier |-> "",
     upstream |-> 0, aborted |-> FALSE]

(***************************************************************************)
(* The registry specification: get_model_for_tier on any registry of at    *)
(* most MaxModels directly constructed ModelInfo values.                   *)
(***************************************************************************)
DigitChar == <<"1", "2", "3", "4", "5", "6", "7", "8", "9">>

DrawnAttrs == [total_params : 0..MaxParams, tier : Tier, is_coder : BOOLEAN]

\* the registry of n models whose attributes f gives, in insertion order
DrawnRegistry(n, f) ==
    [i \in 1..n |->
        [id |-> <<"m", DigitChar[i]>>, total_params |-> f[i].total_params,
         active_params |-> None, tier |-> f[i].tier, is_coder |-> f[i].is_coder]]

InitRegistry ==
    /\ \E n \in 0..MaxModels : \E f \in [1..n -> DrawnAttrs] :
          heap = <<[models |-> DrawnRegistry(n, f), last_refresh |-> 0]>>
    /\ registry = 1
    /\ call = NoCall
    /\ config = DefaultConfig
    /\ configFile = [exists |-> FALSE]
    /\ clock = 0
    /\ app = "test"
    /\ proc = [p \in Procs |-> FreshProc("none", NoBody)]

Lookup(tier, prefer_coder) ==
    /\ call.fn = "none"
    /\ call' = [fn |-> "get_model_for_tier", tier |-> tier,
                prefer_coder |-> prefer_coder,
                result |-> get_model_for_tier(heap[registry].models, tier,
                                              prefer_coder)]
    /\ UNCHANGED <<heap, registry, config, configFile, clock, app, proc>>

NextRegistry == \E tier \in Tier, prefer_coder \in BOOLEAN : Lookup(tier, prefer_coder)

SpecRegistry == InitRegistry /\ [][NextRegistry]_vars

(***************************************************************************)
(* Vocabulary of the registry claims, stated on the registry as a set.     *)
(***************************************************************************)
Looked == call.fn = "get_model_for_tier"
RegModels == {heap[registry].models[i] : i \in DOMAIN heap[registry].models}
InTier(t) == {m \in RegModels : m.tier = t}
NonCoders(S) == {m \in S : ~m.is_coder}
Coders(S) == {m \in S : m.is_coder}
LargestOf(m, S) == m \in S /\ \A o \in S : effective_params(o) <= effective_params(m)
LowestTier(S) == CHOOSE t \in S : \A u \in S : t <= u
HighestTier(S) == CHOOSE t \in S : \A u \in S : u <= t
NonEmptyAbove(t) == {u \in Tier : u > t /\ InTier(u) # {}}
NonEmptyBelow(t) == {u \in Tier : u < t /\ InTier(u) # {}}
\* the tier the claims call the fallback tier of an empty tier t
FallbackTier(t) ==
    IF NonEmptyAbove(t) # {} THEN LowestTier(NonEmptyAbove(t))
    ELSE HighestTier(NonEmptyBelow(t))
\* the tier the claims call the candidate tier of a request for tier t
CandidateTier(t) == IF InTier(t) # {} THEN t ELSE FallbackTier(t)
\* the general-request escape: the candidate tier holds only coder models
\* while some other tier holds a non-coder model
LeavesTier(t) ==
    /\ ~call.prefer_coder
    /\ NonCoders(InTier(CandidateTier(t))) = {}
    /\ NonCoders(RegModels) # {}
GeneralTiers == {t \in Tier : NonCoders(InTier(t)) # {}}

\* C1 as stated: whenever the registry holds a model of the requested tier,
\* the returned model has the requested tier.
C1_AsStated == (Looked /\ InTier(call.tier) # {}) => call.result.tier = call.tier

\* C1, amended: when the registry holds a model of the requested tier, the
\* returned model has that tier if prefer_coder is true, or if the tier holds
\* a non-coder model, or if no tier holds a non-coder model; otherwise (a
\* general request, the tier holds only coder models, another tier holds a
\* non-coder) the returned model is a non-coder model of another tier.
C1_TierUnlessGeneralEscape ==
    (Looked /\ InTier(call.tier) # {}) =>
        IF LeavesTier(call.tier)
        THEN call.result.tier # call.tier /\ call.result \in NonCoders(RegModels)
        ELSE call.result \in InTier(call.tier)

\* a coder request answered inside the requested tier although the only coder
\* models are in other tiers
C1_Witness ==
    /\ Looked /\ call.prefer_coder
    /\ InTier(call.tier) # {} /\ Coders(InTier(call.tier)) = {}
    /\ Coders(RegModels) # {}
    /\ call.result.tier = call.tier

\* C2: the result is null exactly when the registry is empty, and otherwise
\* it is a member of the registry.
C2_NullIffEmpty ==
    Looked => /\ (call.result = NoModel) <=> (RegModels = {})
              /\ RegModels # {} => call.result \in RegModels

\* a non-empty registry whose requested tier is empty still yields a member
C2_Witness ==
    /\ Looked /\ RegModels # {} /\ InTier(call.tier) = {}
    /\ call.result \in RegModels

\* C3 as stated: for an empty requested tier the returned model belongs to the
\* lowest non-empty tier above it, else to the highest non-empty tier below.
C3_AsStated ==
    (Looked /\ InTier(call.tier) = {} /\ RegModels # {}) =>
        call.result.tier = FallbackTier(call.tier)

\* C3, amended: for an empty requested tier the returned model belongs to the
\* lowest non-empty tier above it, else to the highest non-empty tier below,
\* if prefer_coder is true, or if that fallback tier holds a non-coder model,
\* or if no tier holds one; otherwise the returned model is a non-coder model
\* of a tier other than the fallback tier.
C3_FallbackUnlessGeneralEscape ==
    (Looked /\ InTier(call.tier) = {} /\ RegModels # {}) =>
        IF LeavesTier(call.tier)
        THEN /\ call.result.tier # FallbackTier(call.tier)
             /\ call.result \in NonCoders(RegModels)
        ELSE call.result \in InTier(FallbackTier(call.tier))

\* MEDIUM is empty, SMALL and LARGE are not: the answer comes from LARGE
C3_Witness ==
    /\ Looked /\ call.tier = MEDIUM /\ InTier(MEDIUM) = {}
    /\ InTier(SMALL) # {} /\ InTier(LARGE) # {}
    /\ call.result.tier = LARGE

\* C4: with prefer_coder, a candidate tier holding a coder model answers with
\* a largest coder model of that tier; one holding none answers with a
\* largest model of that tier.
C4_CoderPreferred ==
    (Looked /\ call.prefer_coder /\ RegModels # {}) =>
        LET F == InTier(CandidateTier(call.tier))
        IN  IF Coders(F) # {} THEN LargestOf(call.result, Coders(F))
            ELSE LargestOf(call.result, F)

\* a coder model is returned although a non-coder of its tier is larger
C4_Witness ==
    /\ Looked /\ call.prefer_coder /\ call.result.is_coder
    /\ \E m \in NonCoders(InTier(call.result.tier)) :
           effective_params(m) > effective_params(call.result)

\* C5 as stated: without prefer_coder the result is the largest non-coder of
\* the candidate tier; if that tier holds only coders, the largest non-coder
\* of all the other tiers; if no non-coder exists, the largest candidate.
C5_AsStated ==
    (Looked /\ ~call.prefer_coder /\ RegModels # {}) =>
        LET F == InTier(CandidateTier(call.tier))
        IN  IF NonCoders(F) # {} THEN LargestOf(call.result, NonCoders(F))
            ELSE IF NonCoders(RegModels) # {}
                 THEN LargestOf(call.result, NonCoders(RegModels))
            ELSE LargestOf(call.result, F)

\* C5, amended: without prefer_coder the result is the largest non-coder of
\* the candidate tier; if that tier holds only coders, the largest non-coder
\* of the first tier, in the order SMALL, MEDIUM, LARGE, that holds a
\* non-coder; if no non-coder exists anywhere, the largest candidate.
C5_GeneralPreferred ==
    (Looked /\ ~call.prefer_coder /\ RegModels # {}) =>
        LET F == InTier(CandidateTier(call.tier))
        IN  IF NonCoders(F) # {} THEN LargestOf(call.result, NonCoders(F))
            ELSE IF NonCoders(RegModels) # {}
                 THEN LargestOf(call.result,
                                NonCoders(InTier(LowestTier(GeneralTiers))))
            ELSE LargestOf(call.result, F)

\* the candidate tier holds only coders and two other tiers hold non-coders:
\* the result is the non-coder of the lower tier although the other is larger
C5_Witness ==
    /\ Looked /\ ~call.prefer_coder
    /\ NonCoders(InTier(CandidateTier(call.tier))) = {}
    /\ Cardinality(GeneralTiers) = 2
    /\ call.result \in NonCoders(InTier(LowestTier(GeneralTiers)))
    /\ \E m \in NonCoders(RegModels) :
           effective_params(m) > effective_params(call.result)

(***************************************************************************)
(* The service: main.py, router.py and refresh_models of models.py as      *)
(* tasks of one event loop.  A task runs without interruption from one     *)
(* await of a backend call to the next, so every action below is the code  *)
(* between two awaits.                                                     *)
(***************************************************************************)
\* bounds of the service specification
MaxTicks == 1
MaxFill == 10
MaxBillions == 33
MaxAffix == 2
MaxTurns == 4
StartTime == 1000

\* model ids the backend may list
IdSmall == <<"q", "4", "b">>
IdCoder == <<"c", "o", "d", "e", "3", "2", "b">>
IdMoe == <<"q", "3", "0", "b", "-", "a", "3", "b">>
IdPlain == <<"g", "p", "t">>
IdEmbed == <<"e", "m", "b", "e", "d">>
\* an id whose parameter counts all equal its active count
IdTwin == <<"a", "3", "b", "-", "3", "b">>

\* what GET /models may answer
Listings ==
    {<<>>,
     <<IdSmall, IdCoder, IdEmbed>>,
     <<IdMoe, IdPlain, IdCoder>>,
     <<IdCoder, IdTwin>>}

\* router_config.yaml as it may be on disk
FileMissing ==
    [exists |-> FALSE, valid |-> FALSE, classifier_model |-> EmptyStr,
     model_cache_ttl |-> 0, filter_mode |-> "", excluded |-> {},
     models_is_list |-> TRUE, models_list |-> {}, models_groups |-> <<>>]
FileBlocklist ==
    [exists |-> TRUE, valid |-> TRUE, classifier_model |-> EmptyStr,
     model_cache_ttl |-> 1, filter_mode |-> "blocklist", excluded |-> {IdPlain},
     models_is_list |-> FALSE, models_list |-> {},
     models_groups |-> <<<<"large", {IdSmall}>>>>]
FileAllowlist ==
    [exists |-> TRUE, valid |-> TRUE, classifier_model |-> IdSmall,
     model_cache_ttl |-> 1, filter_mode |-> "allowlist", excluded |-> {},
     models_is_list |-> TRUE, models_list |-> {IdSmall, IdCoder, IdMoe},
     models_groups |-> <<>>]
ConfigFiles == {FileMissing, FileBlocklist, FileAllowlist}

\* messages of a request
Msg(role, chars, cplx, simp, code) ==
    [role |-> role, chars |-> chars, blocks |-> 0, image |-> FALSE,
     cplx |-> cplx, modr |-> 0, simp |-> simp, code |-> code]
MsgsSimple == <<Msg("user", 12, 0, TRUE, FALSE)>>
MsgsMedium == <<Msg("user", 300, 1, FALSE, TRUE)>>
MsgsLarge == <<Msg("system", 2400, 0, FALSE, FALSE), Msg("user", 900, 3, FALSE, TRUE)>>
MsgsUnsure == <<Msg("user", 40, 1, FALSE, FALSE)>>
SampleMessages == {<<>>, MsgsSimple, MsgsMedium, MsgsLarge, MsgsUnsure}

\* the JSON bodies of POST /v1/chat/completions
Bodies ==
    [messages : SampleMessages, tools : {0}, model : {EmptyStr}, stream : {FALSE}]
    \cup [messages : {MsgsSimple, MsgsUnsure}, tools : {0}, model : {IdSmall},
          stream : {FALSE}]
    \cup {[messages |-> MsgsUnsure, tools |-> 0, model |-> EmptyStr, stream |-> TRUE],
          [messages |-> MsgsSimple, tools |-> 0, model |-> IdSmall, stream |-> TRUE],
          [messages |-> <<>>, tools |-> 4, model |-> IdSmall, stream |-> TRUE],
          [messages |-> MsgsUnsure, tools |-> 4, model |-> EmptyStr, stream |-> FALSE]}

\* Tier.name
TierName(tier) ==
    IF tier = SMALL THEN "SMALL" ELSE IF tier = MEDIUM THEN "MEDIUM" ELSE "LARGE"

\* an error status of the upstream backend
UpstreamError == 429

\* main.py lines 109-119 once route_request returned: the StreamingResponse
\* is returned, so that its status and headers are sent before the upstream
\* is called, or proxy_chat_completion is awaited
Respond(pr) ==
    IF pr.body.stream
    THEN [pr EXCEPT !.status = 200, !.hdr_model = pr.model.id,
                    !.hdr_tier = pr.meta_tier, !.proxied = @ + 1,
                    !.pc = "sx_wait"]
    ELSE [pr EXCEPT !.proxied = @ + 1, !.pc = "px_wait"]

\* what the classifier call may end in
ClassifierReplies ==
    [kind : HttpFailures \cup BodyFailures, tier_num : {0}, has_reason : {FALSE}]
    \cup [kind : {"ok"}, tier_num : {0, 3, 4}, has_reason : {TRUE}]
    \cup [kind : {"ok"}, tier_num : {3}, has_reason : {FALSE}]

\* router.py lines 59-79: model selection and the return of route_request;
\* main.py lines 93-99 and 124: the 503, or the await of the proxied call
Select(pr, hp) ==
    LET prefer_coder == _is_coding_request(pr.body.messages)
        model == get_model_for_tier(hp[pr.reg].models, pr.tier, prefer_coder)
    IN  IF model = NoModel
        THEN [pr EXCEPT !.prefer_coder = prefer_coder, !.route = "RuntimeError",
                        !.status = 503, !.pc = "done"]
        ELSE Respond([pr EXCEPT !.prefer_coder = prefer_coder,
                                !.route = "returned", !.model = model,
                                !.meta_tier = TierName(pr.tier)])

\* the index of the model with this id in a models dict, 0 if absent
IndexOf(models, id) ==
    IF \E i \in DOMAIN models : models[i].id = id
    THEN CHOOSE i \in DOMAIN models : models[i].id = id
    ELSE 0

\* router.py lines 34-56 after refresh_models returned the registry r; rg and
\* cfg are what get_registry() and get_config() return at that time
RouteMutScoreFirst(pr, r, hp, rg, cfg) ==
    LET heuristic == score_request(pr.body.messages, pr.body.tools, cfg)
        scored == [pr EXCEPT !.reg = r, !.heuristic = heuristic, !.scored = @ + 1]
    IN  IF pr.body.model # EmptyStr /\ IndexOf(hp[r].models, pr.body.model) # 0
        THEN Respond([scored EXCEPT !.route = "returned", !.routing = "explicit",
                            !.model = hp[r].models[IndexOf(hp[r].models, pr.body.model)]])
        ELSE Select([scored EXCEPT !.tier = _score_to_tier(heuristic.score, cfg),
                                   !.routing = "heuristic"], hp)

RouteMutAlwaysClassify(pr, r, hp, rg, cfg) ==
    LET heuristic == score_request(pr.body.messages, pr.body.tools, cfg)
        scored == [pr EXCEPT !.reg = r, !.heuristic = heuristic, !.scored = @ + 1]
        classifier_model == ClassifierModel(hp[rg].models, cfg)
    IN  IF pr.body.model # EmptyStr /\ IndexOf(hp[r].models, pr.body.model) # 0
        THEN Respond([pr EXCEPT !.reg = r, !.route = "returned",
                        !.routing = "explicit",
                        !.model = hp[r].models[IndexOf(hp[r].models, pr.body.model)]])
        ELSE IF classifier_model = EmptyStr
        THEN Select([scored EXCEPT !.classified = @ + 1,
                                   !.cls = NoClassifierResult,
                                   !.tier = NoClassifierResult.tier,
                                   !.routing = "classifier"], hp)
        ELSE [scored EXCEPT !.classified = @ + 1, !.posts = @ + 1,
                            !.classifier_model = classifier_model,
                            !.pc = "cc_wait"]

Route(pr, r, hp, rg, cfg) ==
    LET models == hp[r].models
        heuristic == score_request(pr.body.messages, pr.body.tools, cfg)
        scored == [pr EXCEPT !.reg = r, !.heuristic = heuristic, !.scored = @ + 1]
        classifier_model == ClassifierModel(hp[rg].models, cfg)
    IN  IF pr.body.model # EmptyStr /\ IndexOf(models, pr.body.model) # 0
        THEN Respond([pr EXCEPT !.reg = r, !.route = "returned",
                                !.routing = "explicit",
                                !.model = models[IndexOf(models, pr.body.model)]])
        ELSE IF heuristic.confident
        THEN Select([scored EXCEPT !.tier = _score_to_tier(heuristic.score, cfg),
                                   !.routing = "heuristic"], hp)
        ELSE IF classifier_model = EmptyStr
        THEN Select([scored EXCEPT !.classified = @ + 1,
                                   !.cls = NoClassifierResult,
                                   !.tier = NoClassifierResult.tier,
                                   !.routing = "classifier"], hp)
        ELSE [scored EXCEPT !.classified = @ + 1, !.posts = @ + 1,
                            !.classifier_model = classifier_model,
                            !.pc = "cc_wait"]

\* what a handler does once refresh_models returned the registry r
Resume(pr, r, hp, rg, cfg) ==
    IF pr.handler = "chat" THEN Route(pr, r, hp, rg, cfg)
    ELSE [pr EXCEPT !.reg = r, !.status = IF pr.handler = "startup" THEN 0 ELSE 200,
                    !.pc = "done"]

\* what a handler does when refresh_models raises: nothing catches it
Raised(pr) ==
    [pr EXCEPT !.route = IF pr.handler = "chat" THEN "raised" ELSE "none",
               !.status = IF pr.handler = "startup" THEN 0 ELSE 500,
               !.pc = "done"]

\* models.py lines 155-157: the TTL gate of refresh_models
CacheFreshMutIgnoreForce(force, now, last_refresh, cfg) ==
    (now - last_refresh) < cfg.model_cache_ttl

CacheFresh(force, now, last_refresh, cfg) ==
    ~force /\ (now - last_refresh) < cfg.model_cache_ttl

\* refresh_models up to its first await, for a handler whose locals are pr
BeginRefresh(pr, force, cfg) ==
    IF CacheFresh(force, clock, heap[registry].last_refresh, cfg)
    THEN Resume([pr EXCEPT !.force = force, !.now = clock], registry, heap,
                registry, cfg)
    ELSE [pr EXCEPT !.force = force, !.now = clock, !.fetches = @ + 1,
                    !.pc = "rm_fetch"]

\* a task serves one request, once the application serves
CanStart(p) ==
    /\ app = "serving"
    /\ proc[p].pc = "idle"

\* main.py lifespan: load_config(), then refresh_models(force=True)
Startup(p) ==
    /\ app = "booting"
    /\ proc[p].pc = "idle"
    /\ app' = "starting"
    /\ config' = load_config(configFile)
    /\ proc' = [proc EXCEPT ![p] =
                    BeginRefresh(FreshProc("startup", NoBody), TRUE, config')]
    /\ UNCHANGED <<heap, registry, configFile, clock, call>>

\* main.py lines 81-94: the 400 for a body without messages, else
\* route_request up to its first backend await
ReceivedMutNoCheck(body, cfg) == BeginRefresh(FreshProc("chat", body), FALSE, cfg)

Received(body, cfg) ==
    IF body.messages = <<>>
    THEN [FreshProc("chat", body) EXCEPT !.status = 400, !.pc = "done"]
    ELSE BeginRefresh(FreshProc("chat", body), FALSE, cfg)

\* main.py chat_completions up to its first backend await
StartChat(p) ==
    /\ CanStart(p)
    /\ \E body \in Bodies : proc' = [proc EXCEPT ![p] = Received(body, config)]
    /\ UNCHANGED <<heap, registry, config, configFile, clock, app, call>>

\* main.py reload_config: load_config(), then refresh_models(force=True)
StartReload(p) ==
    /\ CanStart(p)
    /\ config' = load_config(configFile)
    /\ proc' = [proc EXCEPT ![p] =
                    BeginRefresh(FreshProc("reload", NoBody), TRUE, config')]
    /\ UNCHANGED <<heap, registry, configFile, clock, app, call>>

\* models.py lines 160-166: the listing arrives
FetchOk(p) ==
    /\ proc[p].pc = "rm_fetch"
    /\ \E listing \in Listings :
          proc' = [proc EXCEPT ![p].data = listing, ![p].pc = "rm_build"]
    /\ UNCHANGED <<heap, registry, config, configFile, clock, app, call>>

\* models.py lines 214-219: except Exception
RefreshExceptMutAlwaysRaise(pr, hp, rg, cfg) == Raised(pr)

RefreshExcept(pr, hp, rg, cfg) ==
    IF hp[rg].models = <<>> THEN Raised(pr) ELSE Resume(pr, rg, hp, rg, cfg)

\* the application starts serving when the lifespan's refresh returns, and
\* does not start when it raises
AppAfter(pr) ==
    IF pr.handler # "startup" \/ pr.pc # "done" THEN app
    ELSE IF pr.reg = 0 THEN "crashed" ELSE "serving"

\* models.py lines 160-166 fail: network error, error status, invalid JSON
FetchFail(p) ==
    /\ proc[p].pc = "rm_fetch"
    /\ proc' = [proc EXCEPT ![p] = RefreshExcept(proc[p], heap, registry, config)]
    /\ app' = AppAfter(proc'[p])
    /\ UNCHANGED <<heap, registry, config, configFile, clock, call>>

\* line 206: _registry = ModelRegistry(models=new_models, _last_refresh=now)
PublishMutInPlace(hp, rg, new_models, now) ==
    [hp EXCEPT ![rg] = [models |-> new_models, last_refresh |-> now]]

PublishMutMerge(hp, rg, new_models, now) ==
    Append(hp, [models |-> hp[rg].models \o new_models, last_refresh |-> now])

Publish(hp, rg, new_models, now) ==
    Append(hp, [models |-> new_models, last_refresh |-> now])

\* models.py lines 170-219: the listing is rebuilt under cfg into built; the
\* publication, or the except clause
Rebuilt(p, cfg, built) ==
    IF built.raises
    THEN /\ proc' = [proc EXCEPT ![p] =
                       RefreshExcept(proc[p], heap, registry, cfg)]
         /\ UNCHANGED <<heap, registry>>
    ELSE /\ heap' = Publish(heap, registry, built.models, proc[p].now)
         /\ registry' = Len(heap')
         /\ proc' = [proc EXCEPT ![p] =
                       Resume(proc[p], registry', heap', registry', cfg)]

\* models.py line 169: router_cfg = load_config()
Reloaded(p, cfg) ==
    /\ config' = cfg
    /\ Rebuilt(p, cfg, NewModels(proc[p].data, cfg))

\* models.py lines 168-219: load_config(), the rebuild, the publication
Build(p) ==
    /\ proc[p].pc = "rm_build"
    /\ Reloaded(p, load_config(configFile))
    /\ app' = AppAfter(proc'[p])
    /\ UNCHANGED <<configFile, clock, call>>

\* classifier.py lines 59-95: the classifier call ends, classify_complexity
\* returns, route_request selects the model
Escalated(pr, reply, cls, hp) ==
    IF cls.raised
    THEN [pr EXCEPT !.reply = reply, !.cls = cls,
                    !.route = "raised", !.status = 500, !.pc = "done"]
    ELSE Select([pr EXCEPT !.reply = reply, !.cls = cls, !.tier = cls.tier,
                           !.routing = "classifier"], hp)

ClassifierReturns(p) ==
    /\ proc[p].pc = "cc_wait"
    /\ \E reply \in ClassifierReplies :
          proc' = [proc EXCEPT ![p] =
                    Escalated(proc[p], reply, ClassifierExcept(reply), heap)]
    /\ UNCHANGED <<heap, registry, config, configFile, clock, app, call>>

\* proxy.py proxy_chat_completion returns, or raises for an error status of
\* the upstream; main.py lines 119-127, or the exception nothing catches
Proxied(pr, ok) ==
    IF ok
    THEN [pr EXCEPT !.upstream = 200, !.status = 200, !.hdr_model = pr.model.id,
                    !.hdr_tier = pr.meta_tier, !.pc = "done"]
    ELSE [pr EXCEPT !.upstream = UpstreamError, !.status = 500, !.pc = "done"]

ProxyReturns(p) ==
    /\ proc[p].pc = "px_wait"
    /\ \E ok \in BOOLEAN : proc' = [proc EXCEPT ![p] = Proxied(proc[p], ok)]
    /\ UNCHANGED <<heap, registry, config, configFile, clock, app, call>>

\* proxy.py proxy_chat_completion_stream: the upstream answers the stream, or
\* raise_for_status raises inside the body iterator of the response already
\* started
Streamed(pr, ok) ==
    IF ok
    THEN [pr EXCEPT !.upstream = 200, !.pc = "done"]
    ELSE [pr EXCEPT !.upstream = UpstreamError, !.aborted = TRUE, !.pc = "done"]

StreamReturns(p) ==
    /\ proc[p].pc = "sx_wait"
    /\ \E ok \in BOOLEAN : proc' = [proc EXCEPT ![p] = Streamed(proc[p], ok)]
    /\ UNCHANGED <<heap, registry, config, configFile, clock, app, call>>

\* time passes
Tick ==
    /\ clock < StartTime + MaxTicks
    /\ clock' = clock + 1
    /\ UNCHANGED <<heap, registry, config, configFile, app, proc, call>>

Init ==
    /\ heap = <<[models |-> <<>>, last_refresh |-> 0]>>
    /\ registry = 1
    /\ config = DefaultConfig
    /\ configFile \in ConfigFiles
    /\ clock = StartTime
    /\ app = "booting"
    /\ proc = [p \in Procs |-> FreshProc("none", NoBody)]
    /\ call = NoCall

Next ==
    \/ Startup("boot")
    \/ StartChat("t1")
    \/ StartReload("t2")
    \/ \E p \in Procs : FetchOk(p)
    \/ \E p \in Procs : FetchFail(p)
    \/ \E p \in Procs : Build(p)
    \/ \E p \in Procs : ClassifierReturns(p)
    \/ \E p \in Procs : ProxyReturns(p)
    \/ \E p \in Procs : StreamReturns(p)
    \/ Tick

Spec == Init /\ [][Next]_vars

(***************************************************************************)
(* Vocabulary of the service claims.  A request p is a chat request whose  *)
(* refresh_models has returned once proc[p].reg names a registry.          *)
(***************************************************************************)
Refreshed(p) == proc[p].handler = "chat" /\ proc[p].reg # 0

\* the snapshot refresh_models returned to request p
Snapshot(p) == heap[proc[p].reg].models

\* the request names a model of its snapshot
NamesPresent(p) ==
    /\ Refreshed(p)
    /\ proc[p].body.model # EmptyStr
    /\ \E i \in DOMAIN Snapshot(p) : Snapshot(p)[i].id = proc[p].body.model

\* route_request went on to score the request
Scoring(p) == Refreshed(p) /\ ~NamesPresent(p)

\* classify_complexity has returned to request p
Classified(p) == Scoring(p) /\ proc[p].classified = 1 /\ proc[p].pc # "cc_wait"

\* C6: a request naming a model of the snapshot its refresh returned gets
\* exactly that model with routing "explicit", and neither score_request nor
\* classify_complexity runs for it.
C6_ExplicitHonoured ==
    \A p \in Procs : NamesPresent(p) =>
        /\ proc[p].route = "returned"
        /\ proc[p].routing = "explicit"
        /\ proc[p].model.id = proc[p].body.model
        /\ \E i \in DOMAIN Snapshot(p) : Snapshot(p)[i] = proc[p].model
        /\ proc[p].scored = 0
        /\ proc[p].classified = 0
        /\ proc[p].posts = 0

C6_Witness ==
    \E p \in Procs : NamesPresent(p) /\ proc[p].status = 200

\* the failures of the classifier call the code treats as such
ReplyFailed(reply) == reply.kind \in HttpFailures \cup BodyFailures

\* a reply that parses but carries no reason field
ReplyLacksReason(reply) == reply.kind = "ok" /\ ~reply.has_reason

\* C7 as stated: classify_complexity never raises, and on a network error, a
\* timeout, an error status, malformed JSON or any missing field it returns
\* MEDIUM with an explanatory reason.
C7_AsStated ==
    \A p \in Procs : Classified(p) =>
        /\ ~proc[p].cls.raised
        /\ proc[p].route # "raised"
        /\ proc[p].cls.tier \in Tier
        /\ (ReplyFailed(proc[p].reply) \/ ReplyLacksReason(proc[p].reply)) =>
               /\ proc[p].cls.tier = MEDIUM
               /\ proc[p].cls.reason # ""

\* C7: classify_complexity never raises and always returns a tier; on a
\* network error, a timeout, an error status, malformed JSON or a missing
\* tier field it returns MEDIUM with the explanatory reason; a reply that
\* lacks only the reason field is no failure and yields its own clamped tier
\* with an empty reason.
C7_FailuresDefaultToMedium ==
    \A p \in Procs : Classified(p) =>
        /\ ~proc[p].cls.raised
        /\ proc[p].route # "raised"
        /\ proc[p].cls.tier \in Tier
        /\ ReplyFailed(proc[p].reply) =>
               /\ proc[p].cls.tier = MEDIUM
               /\ proc[p].cls.reason = "classifier error, defaulting to medium"
        /\ ReplyLacksReason(proc[p].reply) =>
               /\ proc[p].cls.tier = Max2(1, Min2(3, proc[p].reply.tier_num))
               /\ proc[p].cls.reason = ""

C7_Witness ==
    \E p \in Procs : Classified(p) /\ proc[p].reply.kind = "missing_tier"

\* the tier the thresholds give a score
ThresholdTier(score) ==
    IF score <= config.heuristic_low_threshold THEN SMALL
    ELSE IF score >= config.heuristic_high_threshold THEN LARGE
    ELSE MEDIUM

\* C8: when no explicit model is honoured the scorer runs exactly once; a
\* confident result is never escalated, its tier is SMALL at or below the low
\* threshold, LARGE at or above the high one and MEDIUM between, with routing
\* "heuristic"; a result that is not confident is escalated exactly once and
\* the classifier's tier is the resolved tier, with routing "classifier".
C8_RoutingSequence ==
    \A p \in Procs : Scoring(p) =>
        /\ proc[p].scored = 1
        /\ proc[p].heuristic =
               score_request(proc[p].body.messages, proc[p].body.tools, config)
        /\ proc[p].heuristic.confident =>
               /\ proc[p].classified = 0
               /\ proc[p].posts = 0
               /\ proc[p].tier = ThresholdTier(proc[p].heuristic.score)
               /\ proc[p].routing = "heuristic"
        /\ ~proc[p].heuristic.confident =>
               /\ proc[p].classified = 1
               /\ proc[p].pc # "cc_wait" =>
                      /\ proc[p].tier = proc[p].cls.tier
                      /\ proc[p].routing = "classifier"

C8_Witness ==
    \E p \in Procs :
        /\ Scoring(p)
        /\ proc[p].routing = "heuristic"
        /\ proc[p].tier = LARGE
        /\ proc[p].route = "returned"

\* C9 as stated: one execution of route_request makes at most one backend
\* call.
C9_AsStated ==
    \A p \in Procs : proc[p].handler = "chat" =>
        proc[p].fetches + proc[p].posts <= 1

\* C9: one execution of route_request makes at most two backend calls: at
\* most one listing of the models, by the refresh_models it awaits first, and
\* at most one classifier call, made only for a scored request whose
\* heuristic was not confident.
C9_AtMostListingAndClassifier ==
    \A p \in Procs : proc[p].handler = "chat" =>
        /\ proc[p].fetches <= 1
        /\ proc[p].posts <= 1
        /\ proc[p].posts = 1 =>
               /\ Scoring(p)
               /\ ~proc[p].heuristic.confident
               /\ proc[p].classified = 1
        /\ proc[p].pc = "rm_fetch" => proc[p].fetches = 1 /\ proc[p].posts = 0

C9_Witness ==
    \E p \in Procs :
        /\ proc[p].handler = "chat"
        /\ proc[p].fetches = 1
        /\ proc[p].posts = 1
        /\ proc[p].route = "returned"

\* the complete snapshots: what the rebuild makes of a whole listing
CompleteSnapshots ==
    {NewModels(lf[1], load_config(lf[2])).models :
        lf \in {x \in Listings \X ConfigFiles :
                    ~NewModels(x[1], load_config(x[2])).raises}}

\* C10: every registry a reader holds or can obtain is the initial registry
\* or a complete rebuild of one listing, never part of one or a mix of two;
\* no registry object changes once it exists, and the registry readers
\* obtain changes only by one step to a newly built object.
C10_AtomicPublication ==
    /\ [](/\ registry \in DOMAIN heap
          /\ \A p \in Procs : proc[p].reg \in 0..Len(heap)
          /\ \A r \in DOMAIN heap :
                 \/ r = 1 /\ heap[r].models = <<>>
                 \/ heap[r].models \in CompleteSnapshots)
    /\ [][/\ \A r \in DOMAIN heap : r \in DOMAIN heap' /\ heap'[r] = heap[r]
          /\ registry' # registry =>
                 registry' = Len(heap') /\ Len(heap') = Len(heap) + 1]_vars

C10_Witness ==
    \E p \in Procs :
        /\ proc[p].pc = "cc_wait"
        /\ proc[p].reg # registry
        /\ Snapshot(p) # <<>>
        /\ heap[registry].models # Snapshot(p)

\* a refresh_models execution of p is between the start of its listing fetch
\* and its publication
Refreshing(p) == proc[p].pc \in {"rm_fetch", "rm_build"}

\* C11 as stated: concurrent refreshes collapse or are serialized, so that at
\* no time two refreshes are between the start of their listing fetch and
\* their publication.
C11_AsStated ==
    \A p, q \in Procs : Refreshing(p) /\ Refreshing(q) => p = q

\* the handler of p calls refresh_models in this step
CallsRefresh(p) ==
    /\ proc[p].pc = "idle"
    /\ proc'[p].pc # "idle"
    /\ proc'[p].status # 400

\* C12: a call of refresh_models without force made less than model_cache_ttl
\* seconds after the last-refresh timestamp of the current registry requests
\* no listing, leaves the configuration and the registry as they are and
\* returns the current registry; a forced call always requests a listing.
C12_TimeGated ==
    [][\A p \in Procs : CallsRefresh(p) =>
          IF proc'[p].force
          THEN /\ proc'[p].pc = "rm_fetch"
               /\ proc'[p].fetches = 1
          ELSE IF clock - heap[registry].last_refresh < config.model_cache_ttl
          THEN /\ proc'[p].fetches = 0
               /\ proc'[p].reg = registry
               /\ config' = config
               /\ heap' = heap
               /\ registry' = registry
          ELSE /\ proc'[p].pc = "rm_fetch"
               /\ proc'[p].fetches = 1]_vars

C12_Witness ==
    \E p \in Procs :
        /\ proc[p].handler = "chat"
        /\ proc[p].reg # 0
        /\ proc[p].fetches = 0
        /\ ~proc[p].force
        /\ heap[proc[p].reg].last_refresh < proc[p].now

\* the refresh_models execution of p fails in this step: its listing request
\* fails, or its rebuild raises
FailsRefresh(p) ==
    \/ proc[p].pc = "rm_fetch" /\ proc'[p].pc \notin {"rm_fetch", "rm_build"}
    \/ proc[p].pc = "rm_build" /\ proc'[p].pc # "rm_build" /\ heap' = heap

\* the failure of refresh_models reaches the handler of p as an exception
RaisedTo(p) ==
    /\ proc'[p].pc = "done"
    /\ proc'[p].reg = 0
    /\ proc'[p].handler = "chat" => proc'[p].route = "raised"
    /\ proc'[p].handler = "reload" => proc'[p].status = 500
    /\ proc'[p].handler = "startup" => app' = "crashed"

\* C13: a refresh that fails while the current registry holds a model does
\* not raise and returns that registry; one that fails while it holds none
\* raises; either way the registry, its models and its last-refresh timestamp
\* stay as they were.
C13_StaleButAvailable ==
    [][\A p \in Procs : FailsRefresh(p) =>
          /\ heap' = heap
          /\ registry' = registry
          /\ IF heap[registry].models # <<>>
             THEN /\ proc'[p].reg = registry
                  /\ proc'[p].route # "raised"
                  /\ proc'[p].handler = "reload" => proc'[p].status = 200
             ELSE RaisedTo(p)]_vars

C13_Witness ==
    \E p \in Procs :
        /\ proc[p].handler = "chat"
        /\ proc[p].fetches = 1
        /\ proc[p].reg # 0
        /\ heap[proc[p].reg].models # <<>>
        /\ heap[proc[p].reg].last_refresh < proc[p].now
        /\ proc[p].route = "returned"

\* the refresh_models execution of p publishes in this step
Publishes(p) ==
    proc[p].pc = "rm_build" /\ proc'[p].pc # "rm_build" /\ heap' # heap

\* the listed ids that are chat-capable and pass the filter of cfg
KeptIds(data, cfg) ==
    {id \in {data[i] : i \in DOMAIN data} :
        /\ _is_chat_model(id)
        /\ IF cfg.filter_mode = "allowlist" THEN id \in cfg.allowed_models
           ELSE id \notin cfg.excluded_models}

\* the tier cfg overrides the id with when it names a tier, else the tier
\* derived from the parameters of the id
ExpectedTier(id, cfg) ==
    IF get_tier_override(cfg, id) # "" /\ TierByName(get_tier_override(cfg, id)) \in Tier
    THEN TierByName(get_tier_override(cfg, id))
    ELSE _build_model_info(id, cfg).info.tier

ChatWithMessages(p) == proc[p].handler = "chat" /\ proc[p].body.messages # <<>>

\* C15 as stated: for a chat request with messages the only error of the
\* routing path the caller sees is the 503, given exactly when no model can
\* be selected because the registry is empty; no failure of the refresh or
\* of the classifier reaches the caller.
C15_AsStated ==
    \A p \in Procs : ChatWithMessages(p) =>
        /\ proc[p].route # "raised"
        /\ proc[p].status = 503 <=> proc[p].route = "RuntimeError"
        /\ proc[p].route = "RuntimeError" <=>
               (proc[p].reg # 0 /\ proc[p].pc = "done" /\ Snapshot(p) = <<>>)

\* C16: a chat request without messages is answered 400, and no refresh, no
\* scoring, no model selection, no classifier call and no proxied call is
\* made for it, whatever its model, tools and stream fields are.
C16_NoMessagesIs400 ==
    \A p \in Procs : (proc[p].handler = "chat" /\ proc[p].body.messages = <<>>) =>
        /\ proc[p].status = 400
        /\ proc[p].pc = "done"
        /\ proc[p].fetches = 0
        /\ proc[p].reg = 0
        /\ proc[p].scored = 0
        /\ proc[p].classified = 0
        /\ proc[p].posts = 0
        /\ proc[p].route = "none"
        /\ proc[p].model = NoModel
        /\ proc[p].proxied = 0
        /\ proc[p].hdr_model = EmptyStr

C16_Witness ==
    \E p \in Procs :
        /\ proc[p].handler = "chat"
        /\ proc[p].body.messages = <<>>
        /\ proc[p].body.stream
        /\ proc[p].body.tools > 0
        /\ \E i \in DOMAIN heap[registry].models :
               heap[registry].models[i].id = proc[p].body.model
        /\ proc[p].status = 400

\* C17 as stated: when the upstream answers the proxied completion with an
\* error status, the response the caller receives carries that status and
\* is not cut short; it is neither a 503 nor a generic 500.
C17_AsStated ==
    \A p \in Procs : (proc[p].handler = "chat" /\ proc[p].upstream = UpstreamError) =>
        /\ proc[p].status = proc[p].upstream
        /\ ~proc[p].aborted

\* C18 as stated: every successfully routed chat response, streaming or
\* not and whatever the routing method, carries X-Smart-Router-Model equal
\* to the id of the selected model and a non-empty X-Smart-Router-Tier.
C18_AsStated ==
    \A p \in Procs : (proc[p].handler = "chat" /\ proc[p].status = 200) =>
        /\ proc[p].hdr_model = proc[p].model.id
        /\ proc[p].hdr_tier # ""

(***************************************************************************)
(* The scoring specification: score_request on message lists made of an    *)
(* optional system message, up to MaxFill assistant turns and a last user  *)
(* message, with no, few or many tools.                                    *)
(***************************************************************************)
\* no system message (chars -1), or one of 60, 500 or 2400 characters
SystemLens == {-1, 60, 500, 2400}

ToolCounts == {0, 2, 4}

\* the last user message: a text of 12 characters holds no fenced block and
\* at most one keyword match; a fenced block holds a code fence
UserMsgs ==
    {m \in [role : {"user"}, chars : {12, 900, 8100}, blocks : {0, 1, 3},
            image : BOOLEAN, cplx : {0, 1, 4}, modr : {0, 2},
            simp : BOOLEAN, code : BOOLEAN] :
        /\ m.chars = 12 => (m.blocks = 0 /\ m.cplx + m.modr <= 1)
        /\ m.code = (m.blocks > 0)}

FillerMsg == Msg("assistant", 20, 0, FALSE, FALSE)

DrawnMessages(sys, fill, user) ==
    (IF sys < 0 THEN <<>> ELSE <<Msg("system", sys, 0, FALSE, FALSE)>>)
    \o [i \in 1..fill |-> FillerMsg] \o <<user>>

NoScore == [fn |-> "none", messages |-> <<>>, tools |-> 0, result |-> NoHeuristic]

\* heuristic_low_threshold and heuristic_high_threshold: the defaults, a
\* narrower pair and an equal pair
ThresholdPairs == {<<300, 700>>, <<250, 500>>, <<400, 400>>}

InitScore ==
    /\ \E sys \in SystemLens, fill \in 0..MaxFill, user \in UserMsgs,
          tools \in ToolCounts :
          call = [NoScore EXCEPT !.messages = DrawnMessages(sys, fill, user),
                                 !.tools = tools]
    /\ heap = <<[models |-> <<>>, last_refresh |-> 0]>>
    /\ registry = 1
    /\ \E th \in ThresholdPairs :
          config = [DefaultConfig EXCEPT !.heuristic_low_threshold = th[1],
                                         !.heuristic_high_threshold = th[2]]
    /\ configFile = [exists |-> FALSE]
    /\ clock = 0
    /\ app = "test"
    /\ proc = [p \in Procs |-> FreshProc("none", NoBody)]

Score ==
    /\ call.fn = "none"
    /\ call' = [call EXCEPT !.fn = "score_request",
                            !.result = score_request(call.messages, call.tools,
                                                     config)]
    /\ UNCHANGED <<heap, registry, config, configFile, clock, app, proc>>

NextScore == Score

SpecScore == InitScore /\ [][NextScore]_vars

\* C19: score_request returns a score in [0.0, 1.0] (0..1000 thousandths)
\* for every message list and tool list, whatever signals and penalty
\* apply; within that range the score is the sum of the signals.
C19_ScoreInUnitRange ==
    call.fn = "score_request" =>
        /\ call.result.score \in 0..1000
        /\ RawScore(call.messages, call.tools) \in 0..1000 =>
               call.result.score = RawScore(call.messages, call.tools)

C19_Witness ==
    /\ call.fn = "score_request"
    /\ RawScore(call.messages, call.tools) > 1000
    /\ call.result.score = 1000
    /\ Len(call.messages) > 10
    /\ call.tools > 3

(***************************************************************************)
(* The tiering specification: _build_model_info under the default          *)
(* configuration on two model ids, drawn from the ids "q<n>b" for n up to  *)
(* MaxBillions, ids with a decimal or a MoE part, and ids with no count.   *)
(***************************************************************************)
Digit(d) == IF d = 0 THEN "0" ELSE DigitChar[d]

\* str(n) for n below 100
Numeral(n) == IF n < 10 THEN <<Digit(n)>> ELSE <<Digit(n \div 10), Digit(n % 10)>>

DrawnIds ==
    {<<"q">> \o Numeral(n) \o <<"b">> : n \in 0..MaxBillions}
    \cup {IdPlain, IdMoe, IdCoder, IdEmbed,
          <<"q", "7", ".", "5", "b">>, <<"q", "8", ".", "5", "b">>,
          <<"q", "2", "7", ".", "5", "b">>,
          <<"q", "-", "a", "3", "b">>, <<"q", "0", "b", "-", "a", "0", "b">>}

NoBuild == [fn |-> "none", ids |-> <<>>, built |-> <<>>]

InitTier ==
    /\ \E a \in DrawnIds, b \in DrawnIds : call = [NoBuild EXCEPT !.ids = <<a, b>>]
    /\ heap = <<[models |-> <<>>, last_refresh |-> 0]>>
    /\ registry = 1
    /\ config = DefaultConfig
    /\ configFile = [exists |-> FALSE]
    /\ clock = 0
    /\ app = "test"
    /\ proc = [p \in Procs |-> FreshProc("none", NoBody)]

BuildInfos ==
    /\ call.fn = "none"
    /\ call' = [call EXCEPT !.fn = "_build_model_info",
                            !.built = [i \in 1..2 |->
                                          _build_model_info(call.ids[i], config)]]
    /\ UNCHANGED <<heap, registry, config, configFile, clock, app, proc>>

NextTier == BuildInfos

SpecTier == InitTier /\ [][NextTier]_vars

\* the ModelInfo values the call produced
BuiltInfos ==
    IF call.fn # "_build_model_info" THEN {}
    ELSE {call.built[i].info : i \in {j \in 1..2 : ~call.built[j].raises
                                                   /\ ~call.built[j].none}}

\* the tier of a parameter count (in billions) under the boundaries (8, 27)
BoundaryTier(effective) ==
    IF effective <= 8 * ParamScale THEN SMALL
    ELSE IF effective <= 27 * ParamScale THEN MEDIUM
    ELSE LARGE

\* C20 as stated: for any two ModelInfo values a and b built with no tier
\* override, a.effective_params <= b.effective_params implies
\* a.tier <= b.tier, models with effective_params 0 included.
C20_AsStated ==
    \A a \in BuiltInfos, b \in BuiltInfos :
        effective_params(a) <= effective_params(b) => a.tier <= b.tier

\* C20 amended: the tier is monotonic in effective_params over the models
\* whose effective_params is positive, where it is SMALL up to 8, MEDIUM up
\* to 27 and LARGE above; a model whose effective_params is 0 is MEDIUM,
\* or SMALL when its id carries an explicit active count of zero.
C20_MonotoneWhenKnown ==
    /\ \A a \in BuiltInfos, b \in BuiltInfos :
          (0 < effective_params(a) /\ effective_params(a) <= effective_params(b))
              => a.tier <= b.tier
    /\ \A a \in BuiltInfos :
          a.tier = IF effective_params(a) > 0 THEN BoundaryTier(effective_params(a))
                   ELSE IF a.active_params = 0 THEN SMALL
                   ELSE MEDIUM

C20_Witness ==
    \E a \in BuiltInfos, b \in BuiltInfos :
        /\ effective_params(a) = 8 * ParamScale
        /\ effective_params(b) = 27 * ParamScale
        /\ a.tier = SMALL
        /\ b.tier = MEDIUM

(***************************************************************************)
(* The extraction specification: _extract_params on ids made of a prefix   *)
(* and a suffix of at most MaxAffix characters without digits around one   *)
(* number followed by b or B.                                              *)
(***************************************************************************)
\* the numbers of the drawn ids, as written and as float(...) gives them
DrawnNumbers ==
    {[text |-> <<"7">>, val |-> 7 * ParamScale],
     [text |-> <<"2", "7">>, val |-> 27 * ParamScale],
     [text |-> <<"1", ".", "5">>, val |-> (3 * ParamScale) \div 2],
     [text |-> <<"0">>, val |-> 0]}

PrefixChars == {"q", "a", "A", "-"}
SuffixChars == {"-", "x", "_", " "}

\* the strings of at most n characters of the set chars
Affixes(chars, n) == {<<>>} \cup UNION {[1..k -> chars] : k \in 1..n}

NoExtract ==
    [fn |-> "none", prefix |-> <<>>, number |-> [text |-> <<>>, val |-> 0],
     suffix |-> <<>>, id |-> <<>>, result |-> [raises |-> FALSE, total |-> None,
                                                active |-> None]]

InitParams ==
    /\ \E prefix \in Affixes(PrefixChars, MaxAffix), number \in DrawnNumbers,
          b \in {"b", "B"}, suffix \in Affixes(SuffixChars, MaxAffix) :
          call = [NoExtract EXCEPT !.prefix = prefix, !.number = number,
                                   !.suffix = suffix,
                                   !.id = prefix \o number.text \o <<b>> \o suffix]
    /\ heap = <<[models |-> <<>>, last_refresh |-> 0]>>
    /\ registry = 1
    /\ config = DefaultConfig
    /\ configFile = [exists |-> FALSE]
    /\ clock = 0
    /\ app = "test"
    /\ proc = [p \in Procs |-> FreshProc("none", NoBody)]

Extract ==
    /\ call.fn = "none"
    /\ call' = [call EXCEPT !.fn = "_extract_params",
                            !.result = _extract_params(call.id)]
    /\ UNCHANGED <<heap, registry, config, configFile, clock, app, proc>>

NextParams == Extract

SpecParams == InitParams /\ [][NextParams]_vars

\* the b of the token ends the id or is followed by a non-word character
TokenBounded == call.suffix = <<>> \/ ~IsWord(call.suffix[1])
\* the number of the token is immediately preceded by a or A
TokenAfterA == call.prefix # <<>> /\ IsA(call.prefix[Len(call.prefix)])

\* C21 as stated: for every id that contains a single <n>B token,
\* extract_params returns total = n and active = null, whatever characters
\* precede or follow the token.
C21_AsStated ==
    call.fn = "_extract_params" =>
        /\ ~call.result.raises
        /\ call.result.total = call.number.val
        /\ call.result.active = None

\* C21 amended: for an id with a single <n>B token, total = n when the b of
\* the token ends the id or is followed by a non-word character, and null
\* when a letter, a digit or an underscore follows it; active is null
\* unless the number is immediately preceded by a or A, and then it is n.
C21_SingleTokenBounded ==
    call.fn = "_extract_params" =>
        /\ ~call.result.raises
        /\ call.result.total = IF TokenBounded THEN call.number.val ELSE None
        /\ call.result.active = IF TokenAfterA THEN call.number.val ELSE None

C21_Witness ==
    /\ call.fn = "_extract_params"
    /\ TokenBounded
    /\ ~TokenAfterA
    /\ call.prefix # <<>>
    /\ call.suffix # <<>>
    /\ call.result.total = 27 * ParamScale
    /\ call.result.active = None

\* C22 as stated: whenever score_request reports confident, the returned
\* score lies in one of the three regions score < low - 0.1,
\* low + 0.1 <= score <= high - 0.1 and score > high + 0.1, and the
\* score-to-tier mapping gives SMALL, MEDIUM and LARGE respectively; a
\* score within the margin of a threshold is never confident.
C22_AsStated ==
    (call.fn = "score_request" /\ call.result.confident) =>
        \/ /\ call.result.score < config.heuristic_low_threshold - 100
           /\ _score_to_tier(call.result.score, config) = SMALL
        \/ /\ config.heuristic_low_threshold + 100 <= call.result.score
           /\ call.result.score <= config.heuristic_high_threshold - 100
           /\ _score_to_tier(call.result.score, config) = MEDIUM
        \/ /\ call.result.score > config.heuristic_high_threshold + 100
           /\ _score_to_tier(call.result.score, config) = LARGE

\* p's step enters classify_complexity
Escalates(p) == proc'[p].classified = proc[p].classified + 1
\* that step calls the backend with the model of id chosen
CallsClassifier(p, chosen) ==
    /\ proc'[p].pc = "cc_wait"
    /\ proc'[p].posts = proc[p].posts + 1
    /\ proc'[p].classifier_model = chosen
\* m has the smallest effective_params of the set S of models
SmallestOf(m, S) == m \in S /\ \A o \in S : effective_params(m) <= effective_params(o)

DrawnTurn(role, code, keyword) ==
    Msg(role, 20, IF role = "user" /\ keyword THEN 1 ELSE 0, FALSE, code)

NoDecision ==
    [fn |-> "none", messages |-> <<>>, method |-> "", tier |-> 0,
     prefer_coder |-> FALSE]

InitCoding ==
    /\ \E n \in 1..MaxTurns, keyword \in BOOLEAN :
          \E f \in [1..n -> {"user", "assistant", "system"} \X BOOLEAN] :
              call = [NoDecision EXCEPT
                        !.messages = [i \in 1..n |->
                                         DrawnTurn(f[i][1], f[i][2], keyword)]]
    /\ heap = <<[models |-> <<>>, last_refresh |-> 0]>>
    /\ registry = 1
    /\ config = DefaultConfig
    /\ configFile = [exists |-> FALSE]
    /\ clock = 0
    /\ app = "test"
    /\ proc = [p \in Procs |-> FreshProc("none", NoBody)]

\* router.py lines 43-60, cls_tier being the tier classify_complexity returns
Decided(c, heuristic, cls_tier, cfg) ==
    [c EXCEPT !.fn = "route_request",
              !.method = IF heuristic.confident THEN "heuristic" ELSE "classifier",
              !.tier = IF heuristic.confident
                       THEN _score_to_tier(heuristic.score, cfg) ELSE cls_tier,
              !.prefer_coder = _is_coding_request(c.messages)]

Decide ==
    /\ call.fn = "none"
    /\ \E cls_tier \in Tier :
          call' = Decided(call, score_request(call.messages, 0, config), cls_tier,
                          config)
    /\ UNCHANGED <<heap, registry, config, configFile, clock, app, proc>>

NextCoding == Decide

SpecCoding == InitCoding /\ [][NextCoding]_vars

\* the positions of the last 3 messages of role user
LastUsers ==
    {i \in DOMAIN call.messages :
        /\ call.messages[i].role = "user"
        /\ Cardinality({j \in DOMAIN call.messages :
                           j > i /\ call.messages[j].role = "user"}) < 3}

\* C24: prefer_coder is true if and only if one of the last 3 messages of
\* role user holds a code indicator or a code fence, whatever the older
\* user messages and the system and assistant messages hold, and whether
\* the tier came from the heuristic or from the classifier.
C24_LastThreeUsers ==
    call.fn = "route_request" =>
        /\ call.method \in {"heuristic", "classifier"}
        /\ call.tier \in Tier
        /\ call.prefer_coder <=> \E i \in LastUsers : call.messages[i].code

C24_Witness ==
    /\ call.fn = "route_request"
    /\ call.method = "classifier"
    /\ call.tier = LARGE
    /\ Len(call.messages) = 4
    /\ \A i \in DOMAIN call.messages : call.messages[i].role = "user"
    /\ call.messages[1].code
    /\ ~call.prefer_coder

\* C25 as stated: extract_params returns a pair for every model id of a
\* listing, without raising, and so a refresh that fetched its listing never
\* fails: once its rebuild is over, the registry it returns is the one it
\* built from that listing.
C25_AsStated ==
    \A p \in Procs : proc[p].data # <<>> =>
        /\ \A i \in DOMAIN proc[p].data : ~_extract_params(proc[p].data[i]).raises
        /\ proc[p].pc # "rm_build" =>
               /\ proc[p].reg # 0
               /\ heap[proc[p].reg].last_refresh = proc[p].now

\* C26 as stated: under any interleaving of overlapping refresh_models
\* executions the last-refresh timestamp of the published registry never
\* decreases: a registry built by a refresh that started earlier never
\* replaces the one published by a refresh that started later.
C26_AsStated ==
    [][heap'[registry'].last_refresh >= heap[registry].last_refresh]_vars

====
